---- MODULE Spec2Model ----
(***************************************************************************)
(* News API client (scraping.py): fetch with bounded retry, mapping of raw *)
(* articles to Article records, JSON/CSV export and console display, wired *)
(* together by main().                                                     *)
(*                                                                         *)
(* Strings are sequences of string chunks, "" is << >>.  A Python value is *)
(* a record [tag, s]: None, Str(s), or Missing for a key a dict lacks.     *)
(***************************************************************************)
EXTENDS Integers, Sequences, FiniteSets, TLC

VARIABLES
    pc,             \* position of main(): start, fetch, backoff, map, exporter,
                    \* save_json, save_csv, display, done
    env_key,        \* os.getenv("NEWS_API_KEY") after load_dotenv()
    args,           \* argparse namespace: quiet, full_content, json, csv
    json_exc_req,   \* does response.json() raise a RequestException subclass
                    \* (requests >= 2.27) or a plain ValueError (older)
    http_log,       \* requests issued and backoff sleeps, in order
    raw_data,       \* the "articles" array of the decoded response
    articles,       \* list of Article
    timestamp,      \* NewsDataExporter.timestamp
    dir_created,    \* output_dir.mkdir() has run
    fs,             \* files of the output directory: name -> content
    json_file,      \* path returned by save_json
    csv_file,       \* path returned by save_csv
    console,        \* lines printed by rich Console
    log,            \* logger records of main and the exporter
    exc,            \* exception caught by main's handlers, << >> if none
    exit_code,      \* << >> while running, <<0>> or <<1>> once main returned
    stages,         \* pipeline stages entered so far
    clock           \* wall clock, seconds

vars == <<pc, env_key, args, json_exc_req, http_log, raw_data, articles,
          timestamp, dir_created, fs, json_file, csv_file, console, log, exc,
          exit_code, stages, clock>>

-----------------------------------------------------------------------------
(* Bounds *)

MaxArticles == 2    \* articles in one response (main pipeline)
MaxRows == 2        \* articles handed to save_csv (export specification)
MaxShown == 1       \* articles handed to display_results (display specification)
MaxLen == 3         \* length of a content string
MaxNameLen == 3     \* length of a --json / --csv file name
MaxClock == 2       \* seconds the clock may advance during a run

-----------------------------------------------------------------------------
(* Python values *)

None == [tag |-> "null", s |-> << >>]
Missing == [tag |-> "missing", s |-> << >>]
Str(s) == [tag |-> "str", s |-> s]
Empty == Str(<< >>)

\* bool(v) of None or a str
Truthy(v) == v.tag = "str" /\ v.s # << >>

\* a or b
PyOr(a, b) == IF Truthy(a) THEN a ELSE b

\* dict.get(key, default), v the entry of the key (Missing when absent)
DictGet(v, default) == IF v.tag = "missing" THEN default ELSE v

\* an f-string or print of a value: None prints as the text None
Fmt(v) == IF v.tag = "null" THEN <<"None">> ELSE v.s

RECURSIVE SeqsUpTo(_, _)
SeqsUpTo(S, n) ==
    IF n = 0 THEN {<< >>}
    ELSE LET shorter == SeqsUpTo(S, n - 1)
         IN  shorter \cup {Append(q, x) : q \in shorter, x \in S}

Map(f(_), q) == [i \in 1..Len(q) |-> f(q[i])]

RECURSIVE Flatten(_)
Flatten(qq) == IF qq = << >> THEN << >> ELSE Head(qq) \o Flatten(Tail(qq))

-----------------------------------------------------------------------------
(* Article.from_dict *)

\* A raw source entry: missing key, JSON null, or a mapping with name and id.
NoSource == [tag |-> "missing", name |-> Missing, id |-> Missing]
NullSource == [tag |-> "null", name |-> Missing, id |-> Missing]
SourceMap(n, i) == [tag |-> "map", name |-> n, id |-> i]

\* data.get('source', {}): the default is the empty mapping
SourceOf(data) == IF data.source.tag = "missing" THEN SourceMap(Missing, Missing)
                  ELSE data.source

\* None has no .get: AttributeError
from_dict_raises(data) == SourceOf(data).tag = "null"

from_dict(data) ==
    [title        |-> DictGet(data.title, Empty),
     source       |-> DictGet(SourceOf(data).name, Empty),
     source_id    |-> DictGet(SourceOf(data).id, None),
     author       |-> DictGet(data.author, None),
     description  |-> DictGet(data.description, None),
     url          |-> DictGet(data.url, Empty),
     url_to_image |-> DictGet(data.urlToImage, None),
     published_at |-> DictGet(data.publishedAt, Empty),
     content      |-> DictGet(data.content, None)]

-----------------------------------------------------------------------------
(* NewsApiClient *)

MaxTries == 3

\* self.api_key = api_key or os.getenv("NEWS_API_KEY")
ResolveKey(api_key, env) == PyOr(api_key, env)

\* variant of ClientInitRaises: tests "is None" instead of falsiness
ClientInitRaisesOnNoneOnly(key) == key = None

\* if not self.api_key: raise ValueError
ClientInitRaises(key) == ~Truthy(key)

\* response.raise_for_status(): HTTPError for 4XX/5XX responses
RaiseForStatus(status) == 400 <= status /\ status < 600

\* One call of the undecorated fetch_everything: a transport failure of
\* requests.get, else the status check, else response.json().
Outcome(transport_fails, status, valid_json) ==
    IF transport_fails THEN "transport"
    ELSE IF RaiseForStatus(status) THEN "http_error"
    ELSE IF ~valid_json THEN "bad_json"
    ELSE "ok"

\* The exception a failed call raises, with the classes main's handlers test.
ExcOf(outcome, json_is_req) ==
    CASE outcome = "transport"  -> [name |-> "ConnectionError", bases |-> {"RequestException"}]
      [] outcome = "http_error" -> [name |-> "HTTPError", bases |-> {"RequestException"}]
      [] outcome = "bad_json"   ->
            [name |-> "JSONDecodeError",
             bases |-> IF json_is_req THEN {"ValueError", "RequestException"}
                       ELSE {"ValueError"}]

\* backoff.on_exception(..., (RequestException, HTTPError), ...): the classes retried
Retryable(e) == "RequestException" \in e.bases

\* variant of GiveUp: one try too many
GiveUpLate(tries) == tries = MaxTries + 1

\* max_tries=3: the exception of the third try is re-raised
GiveUp(tries) == tries = MaxTries

-----------------------------------------------------------------------------
(* NewsDataExporter *)

Digits == <<"0", "1", "2", "3", "4", "5", "6", "7", "8", "9">>

\* datetime.now().strftime("%Y%m%d_%H%M%S"): one text per second
Strftime(t) == <<Digits[((t \div 10) % 10) + 1], Digits[(t % 10) + 1]>>

\* name.rfind('.'), 1-based, 0 when there is no dot
RFindDot(name) ==
    LET dots == {i \in 1..Len(name) : name[i] = "."}
    IN  IF dots = {} THEN 0 ELSE CHOOSE i \in dots : \A j \in dots : j <= i

\* PurePath.suffix: the text from the last dot of the name on, unless that dot
\* is the first or the last character
Suffix(name) ==
    LET k == RFindDot(name)
    IN  IF 1 < k /\ k < Len(name) THEN SubSeq(name, k, Len(name)) ELSE << >>

\* variant of DefaultName: formats the time of the call
DefaultNameAt(stamp, now, extension) ==
    <<"news_data_">> \o Strftime(now) \o <<".", extension>>

\* Path(f"news_data_{self.timestamp}.{extension}")
DefaultName(stamp, now, extension) ==
    <<"news_data_">> \o Strftime(stamp) \o <<".", extension>>

\* _get_filename(base_name, extension) of an exporter whose timestamp is stamp,
\* called when the clock reads now; the result is the name inside output_dir
get_filename(base_name, extension, stamp, now) ==
    IF Truthy(base_name)
    THEN IF Suffix(base_name.s) = << >>
         THEN base_name.s \o <<".", extension>>
         ELSE base_name.s
    ELSE DefaultName(stamp, now, extension)

Header == <<"title", "source", "source_id", "author", "description",
            "url", "url_to_image", "publishedAt", "content">>

\* variant of CsvCell: str(v)
CsvCellRepr(v) == Fmt(v)

\* csv.writer renders None as the empty field and a str as itself
CsvCell(v) == IF v.tag = "null" THEN << >> ELSE v.s

\* the list handed to writer.writerow for one article
CsvRow(a) ==
    <<CsvCell(a.title),
      CsvCell(a.source),
      CsvCell(PyOr(a.source_id, Empty)),
      CsvCell(PyOr(a.author, Empty)),
      CsvCell(PyOr(a.description, Empty)),
      CsvCell(a.url),
      CsvCell(PyOr(a.url_to_image, Empty)),
      CsvCell(a.published_at),
      CsvCell(PyOr(a.content, Empty))>>

JsonContent(data) == [kind |-> "json", data |-> data, header |-> << >>, rows |-> << >>]
CsvContent(rows) == [kind |-> "csv", data |-> << >>, header |-> Header, rows |-> rows]

\* open(file_path, 'w') followed by the writes
WriteFile(files, name, content) ==
    [n \in DOMAIN files \cup {name} |-> IF n = name THEN content ELSE files[n]]

-----------------------------------------------------------------------------
(* display_results and the full-content section of main *)

\* s.find('[+'), 1-based, 0 when the marker does not occur
FindMarker(s) ==
    LET hits == {i \in 1..(Len(s) - 1) : s[i] = "[" /\ s[i + 1] = "+"}
    IN  IF hits = {} THEN 0 ELSE CHOOSE i \in hits : \A j \in hits : i <= j

\* variant of Preview: no split
PreviewVerbatim(s) == s

\* content.split('[+')[0] if '[+' in content else content
Preview(s) == IF FindMarker(s) # 0 THEN SubSeq(s, 1, FindMarker(s) - 1) ELSE s

Line(label, n, text) == [label |-> label, n |-> n, text |-> text]

\* the detail block of article number i
Detail(a, i) ==
    <<Line("title", i, Fmt(a.title)), Line("Source", i, Fmt(a.source))>>
    \o (IF Truthy(a.author) THEN <<Line("Author", i, a.author.s)>> ELSE << >>)
    \o (IF Truthy(a.description) THEN <<Line("Description", i, a.description.s)>> ELSE << >>)
    \o <<Line("Published", i, Fmt(a.published_at)), Line("URL", i, Fmt(a.url))>>
    \o (IF Truthy(a.url_to_image) THEN <<Line("Image", i, a.url_to_image.s)>> ELSE << >>)
    \o (IF Truthy(a.content)
        THEN <<Line("Content Preview", i, Preview(a.content.s))>> ELSE << >>)

display_results(as) ==
    IF as = << >> THEN <<Line("notice", 0, <<"No articles found">>)>>
    ELSE [i \in 1..Len(as) |-> Line("row", i, CsvCell(as[i].title))]
         \o <<Line("details", 0, <<"Article Details:">>)>>
         \o Flatten([i \in 1..Len(as) |-> Detail(as[i], i)])

\* main, lines 271-280
FullContent(a, i) ==
    <<Line("full title", i, Fmt(a.title)),
      IF Truthy(a.content) THEN Line("Content", i, a.content.s)
      ELSE Line("No content available", i, << >>),
      Line("---", i, << >>)>>

full_content_section(as) ==
    <<Line("full", 0, <<"Full Article Content:">>)>>
    \o Flatten([i \in 1..Len(as) |-> FullContent(as[i], i)])

-----------------------------------------------------------------------------
(* main: exception handlers *)

ValueErrorExc == [name |-> "ValueError", bases |-> {"ValueError"}]
AttributeErrorExc == [name |-> "AttributeError", bases |-> {}]
OSErrorExc == [name |-> "OSError", bases |-> {}]
MarkupErrorExc == [name |-> "MarkupError", bases |-> {}]

\* the except clause that catches e: ValueError, then RequestException, then Exception
Handler(e) ==
    IF "ValueError" \in e.bases THEN "error"
    ELSE IF "RequestException" \in e.bases THEN "Network error"
    ELSE "Unexpected error"

\* variant of HandledExit: only the network handler returns 1
HandledExitZero(e) == IF "RequestException" \in e.bases THEN 1 ELSE 0

\* every except clause of main returns 1
HandledExit(e) == 1

\* e raised inside the try block of main: logged by its handler, main returns
Raise(e) ==
    /\ exc' = <<e>>
    /\ log' = Append(log, Handler(e))
    /\ exit_code' = <<HandledExit(e)>>
    /\ pc' = "done"

\* main returns 0 after the try block
Return0 ==
    /\ exit_code' = <<0>>
    /\ pc' = "done"

-----------------------------------------------------------------------------
(* Inputs *)

EnvKeys == {None, Empty, Str(<<"k">>)}

StatusCodes == {200, 304, 404}

RawArticle(t, src, au, de, u, im, pu, co) ==
    [title |-> t, source |-> src, author |-> au, description |-> de,
     url |-> u, urlToImage |-> im, publishedAt |-> pu, content |-> co]

RawFull == RawArticle(Str(<<"T">>), SourceMap(Str(<<"S">>), Str(<<"i">>)),
                      Str(<<"A">>), Str(<<"D">>), Str(<<"U">>), Str(<<"I">>),
                      Str(<<"P">>), Str(<<"c", "[", "+", "9", "]">>))
RawBare == RawArticle(Missing, NoSource, Missing, Missing, Missing, Missing,
                      Missing, Missing)
RawNulls == RawArticle(Str(<<"N">>), SourceMap(Str(<<"S">>), None), None, None,
                       Str(<<"U">>), None, Str(<<"P">>), None)
RawMixed == RawArticle(Str(<<"M">>), SourceMap(Missing, Str(<<"i">>)), Empty,
                       Str(<<"D">>), Empty, Missing, Missing, Empty)
RawNullTitle == RawArticle(None, NoSource, Str(<<"A">>), None, None, None,
                           None, Str(<<"c">>))
RawNullSource == RawArticle(Str(<<"T">>), NullSource, None, None, Str(<<"U">>),
                            None, Str(<<"P">>), None)

RawPool == {RawFull, RawBare, RawNulls, RawMixed, RawNullTitle, RawNullSource}

MainPool == {RawFull, RawBare, RawNullSource}

MainArgs == [quiet : BOOLEAN, full_content : BOOLEAN,
             json : {None, Str(<<"o">>)}, csv : {None, Str(<<"o">>)}]

-----------------------------------------------------------------------------
(* Actions *)

Attempts(hl) == Cardinality({i \in 1..Len(hl) : hl[i].ev = "attempt"})
Delays(hl) == Cardinality({i \in 1..Len(hl) : hl[i].ev = "delay"})

\* The clock is read by NewsDataExporter only (line 108); time that passes
\* before the exporter exists is not observed.
Tick ==
    /\ pc \in {"exporter", "save_json", "save_csv"}
    /\ clock < MaxClock
    /\ clock' = clock + 1
    /\ UNCHANGED <<pc, env_key, args, json_exc_req, http_log, raw_data, articles,
                   timestamp, dir_created, fs, json_file, csv_file, console, log,
                   exc, exit_code, stages>>

\* main, lines 247-250: load_dotenv(); NewsApiClient()
ClientInit ==
    /\ pc = "start"
    /\ stages' = Append(stages, "load")
    /\ IF ClientInitRaises(ResolveKey(None, env_key))
       THEN Raise(ValueErrorExc)
       ELSE /\ pc' = "fetch"
            /\ UNCHANGED <<exc, log, exit_code>>
    /\ UNCHANGED <<env_key, args, json_exc_req, http_log, raw_data, articles,
                   timestamp, dir_created, fs, json_file, csv_file, console, clock>>

\* One try of the decorated fetch_everything (lines 65-90): the HTTP request,
\* the status check and the decoding, then backoff's decision on the exception.
Attempt ==
    /\ pc = "fetch"
    /\ \E transport_fails \in BOOLEAN, status \in StatusCodes, valid_json \in BOOLEAN,
          data \in SeqsUpTo(MainPool, MaxArticles) :
          LET o == Outcome(transport_fails, status, valid_json)
              tries == Attempts(http_log) + 1
          IN  /\ http_log' = Append(http_log,
                    [ev |-> "attempt", outcome |-> o,
                     status |-> IF transport_fails THEN 0 ELSE status])
              /\ IF o = "ok"
                 THEN /\ raw_data' = data
                      /\ pc' = "map"
                      /\ UNCHANGED <<exc, log, exit_code>>
                 ELSE /\ raw_data' = raw_data
                      /\ IF Retryable(ExcOf(o, json_exc_req)) /\ ~GiveUp(tries)
                         THEN /\ pc' = "backoff"
                              /\ UNCHANGED <<exc, log, exit_code>>
                         ELSE Raise(ExcOf(o, json_exc_req))
    /\ UNCHANGED <<env_key, args, json_exc_req, articles, timestamp, dir_created,
                   fs, json_file, csv_file, console, stages, clock>>

\* backoff: time.sleep(seconds) between two tries
Backoff ==
    /\ pc = "backoff"
    /\ http_log' = Append(http_log, [ev |-> "delay", outcome |-> "-", status |-> 0])
    /\ pc' = "fetch"
    /\ UNCHANGED <<env_key, args, json_exc_req, raw_data, articles, timestamp,
                   dir_created, fs, json_file, csv_file, console, log, exc,
                   exit_code, stages, clock>>

\* main, lines 256-261
MapArticles ==
    /\ pc = "map"
    /\ stages' = Append(stages, "map")
    /\ IF \E i \in 1..Len(raw_data) : from_dict_raises(raw_data[i])
       THEN /\ Raise(AttributeErrorExc)
            /\ UNCHANGED articles
       ELSE /\ articles' = Map(from_dict, raw_data)
            /\ pc' = "exporter"
            /\ UNCHANGED <<exc, log, exit_code>>
    /\ UNCHANGED <<env_key, args, json_exc_req, http_log, raw_data, timestamp,
                   dir_created, fs, json_file, csv_file, console, clock>>

\* NewsDataExporter.__init__ (lines 104-109): mkdir, which may fail, then the timestamp
ExporterInit ==
    /\ pc = "exporter"
    /\ stages' = Append(stages, "exporter")
    /\ \E ok \in BOOLEAN :
          IF ok
          THEN /\ dir_created' = TRUE
               /\ timestamp' = clock
               /\ pc' = "save_json"
               /\ UNCHANGED <<exc, log, exit_code>>
          ELSE /\ Raise(OSErrorExc)
               /\ UNCHANGED <<dir_created, timestamp>>
    /\ UNCHANGED <<env_key, args, json_exc_req, http_log, raw_data, articles, fs,
                   json_file, csv_file, console, clock>>

\* variant of SaveJson: the failure of open() is swallowed
SaveJsonSwallow ==
    /\ pc = "save_json"
    /\ stages' = Append(stages, "json")
    /\ \E ok \in BOOLEAN :
          LET name == get_filename(args.json, "json", timestamp, clock)
          IN  /\ fs' = IF ok THEN WriteFile(fs, name, JsonContent(raw_data)) ELSE fs
              /\ json_file' = <<name>>
              /\ pc' = "save_csv"
              /\ UNCHANGED <<exc, log, exit_code>>
    /\ UNCHANGED <<env_key, args, json_exc_req, http_log, raw_data, articles,
                   timestamp, dir_created, csv_file, console, clock>>

\* save_json (lines 122-130): open() may fail
SaveJson ==
    /\ pc = "save_json"
    /\ stages' = Append(stages, "json")
    /\ \E ok \in BOOLEAN :
          LET name == get_filename(args.json, "json", timestamp, clock)
          IN  IF ok
              THEN /\ fs' = WriteFile(fs, name, JsonContent(raw_data))
                   /\ json_file' = <<name>>
                   /\ pc' = "save_csv"
                   /\ UNCHANGED <<exc, log, exit_code>>
              ELSE /\ Raise(OSErrorExc)
                   /\ UNCHANGED <<fs, json_file>>
    /\ UNCHANGED <<env_key, args, json_exc_req, http_log, raw_data, articles,
                   timestamp, dir_created, csv_file, console, clock>>

\* main after save_csv returned: line 269, and line 296 when --quiet
AfterCsv ==
    IF args.quiet THEN Return0 /\ UNCHANGED exc
    ELSE pc' = "display" /\ UNCHANGED <<exc, exit_code>>

\* save_csv (lines 132-161): nothing is opened for an empty list
SaveCsv ==
    /\ pc = "save_csv"
    /\ stages' = Append(stages, "csv")
    /\ LET name == get_filename(args.csv, "csv", timestamp, clock)
       IN  IF articles = << >>
           THEN /\ log' = Append(log, "No articles to save")
                /\ csv_file' = <<name>>
                /\ fs' = fs
                /\ AfterCsv
           ELSE \E ok \in BOOLEAN :
                   IF ok
                   THEN /\ fs' = WriteFile(fs, name, CsvContent(Map(CsvRow, articles)))
                        /\ csv_file' = <<name>>
                        /\ log' = log
                        /\ AfterCsv
                   ELSE /\ Raise(OSErrorExc)
                        /\ UNCHANGED <<fs, csv_file>>
    /\ UNCHANGED <<env_key, args, json_exc_req, http_log, raw_data, articles,
                   timestamp, dir_created, json_file, console, clock>>

\* main, lines 269-284 and 296: display_results, the full-content section,
\* the closing log records; a print may fail (rich markup in the text)
Display ==
    /\ pc = "display"
    /\ stages' = Append(stages, "display")
    /\ \E ok \in BOOLEAN :
          IF ok
          THEN /\ console' = console \o display_results(articles)
                     \o (IF args.full_content THEN full_content_section(articles)
                         ELSE << >>)
               /\ log' = Append(log, "Data saved to")
               /\ Return0
               /\ UNCHANGED exc
          ELSE /\ Raise(MarkupErrorExc)
               /\ UNCHANGED console
    /\ UNCHANGED <<env_key, args, json_exc_req, http_log, raw_data, articles,
                   timestamp, dir_created, fs, json_file, csv_file, clock>>

-----------------------------------------------------------------------------
(* Specifications *)

Init ==
    /\ pc = "start"
    /\ env_key \in EnvKeys
    /\ args \in MainArgs
    /\ json_exc_req \in BOOLEAN
    /\ http_log = << >>
    /\ raw_data = << >>
    /\ articles = << >>
    /\ timestamp = 0
    /\ dir_created = FALSE
    /\ fs = << >>
    /\ json_file = << >>
    /\ csv_file = << >>
    /\ console = << >>
    /\ log = << >>
    /\ exc = << >>
    /\ exit_code = << >>
    /\ stages = << >>
    /\ clock = 0

Next ==
    \/ ClientInit
    \/ Attempt
    \/ Backoff
    \/ MapArticles
    \/ Tick
    \/ ExporterInit
    \/ SaveJson
    \/ SaveCsv
    \/ Display

Spec == Init /\ [][Next]_vars

\* The state of main at a later line of a run whose first request succeeded.
Running(at, a, raw, as, files, jf, st) ==
    /\ pc = at
    /\ env_key = Str(<<"k">>)
    /\ args = a
    /\ json_exc_req = TRUE
    /\ http_log = <<[ev |-> "attempt", outcome |-> "ok", status |-> 200]>>
    /\ raw_data = raw
    /\ articles = as
    /\ timestamp = 0
    /\ dir_created = (at \in {"save_json", "save_csv"})
    /\ fs = files
    /\ json_file = jf
    /\ csv_file = << >>
    /\ console = << >>
    /\ log = << >>
    /\ exc = << >>
    /\ exit_code = << >>
    /\ stages = st
    /\ clock = 0

\* Article.from_dict on one raw article: main at line 261, every shape of article
Values3 == {Missing, None, Str(<<"x">>)}
Values4 == {Missing, None, Empty, Str(<<"x">>)}
RawSources == {NoSource, NullSource} \cup {SourceMap(n, i) : n \in Values3, i \in Values3}
RawSpace == {RawArticle(t, src, au, de, u, im, pu, co) :
                t \in Values3, src \in RawSources, au \in Values4, de \in Values3,
                u \in Values3, im \in Values3, pu \in Values3, co \in Values3}

InitModel ==
    \E d \in RawSpace :
        Running("map", [quiet |-> TRUE, full_content |-> FALSE, json |-> None, csv |-> None],
                <<d>>, << >>, << >>, << >>, <<"load">>)

SpecModel == InitModel /\ [][MapArticles]_vars

\* Mapping and export of a response of up to MaxRows articles: main from line 256
InitExport ==
    \E raw \in SeqsUpTo(RawPool, MaxRows), q \in BOOLEAN, c \in {None, Str(<<"o">>)} :
        Running("map", [quiet |-> q, full_content |-> FALSE, json |-> None, csv |-> c],
                raw, << >>, << >>, << >>, <<"load">>)

NextExport ==
    \/ MapArticles
    \/ Tick
    \/ ExporterInit
    \/ SaveJson
    \/ SaveCsv

SpecExport == InitExport /\ [][NextExport]_vars

\* File names: main at line 264, the --json and --csv arguments over all short
\* names.  "." alone is the directory, and a name ending in a dot is read
\* differently by different pathlib versions; neither is drawn.
NameChars == {"a", "."}
Names == {n \in SeqsUpTo(NameChars, MaxNameLen) : n # << >> /\ n[Len(n)] # "."}
NameArgs == {None, Empty} \cup {Str(n) : n \in Names}

InitName ==
    \E j \in NameArgs, c \in NameArgs :
        Running("exporter", [quiet |-> TRUE, full_content |-> FALSE, json |-> j, csv |-> c],
                <<RawFull>>, <<from_dict(RawFull)>>, << >>, << >>, <<"load", "map">>)

NextName ==
    \/ Tick
    \/ ExporterInit
    \/ SaveJson
    \/ SaveCsv

SpecName == InitName /\ [][NextName]_vars

\* Display: main at line 266, articles whose content ranges over all short texts
ContentChars == {"a", "[", "+"}
Contents == {Missing, None} \cup {Str(s) : s \in SeqsUpTo(ContentChars, MaxLen)}
RawWithContent(c) == RawArticle(Str(<<"T">>), NoSource, Missing, Missing, Str(<<"U">>),
                                Missing, Str(<<"P">>), c)

InitDisplay ==
    \E cs \in SeqsUpTo(Contents, MaxShown), q \in BOOLEAN, f \in BOOLEAN :
        LET raw == Map(RawWithContent, cs)
            name == DefaultName(0, 0, "json")
        IN  Running("save_csv", [quiet |-> q, full_content |-> f, json |-> None, csv |-> None],
                    raw, Map(from_dict, raw), WriteFile(<< >>, name, JsonContent(raw)),
                    <<name>>, <<"load", "map", "exporter", "json">>)

NextDisplay ==
    \/ SaveCsv
    \/ Display

SpecDisplay == InitDisplay /\ [][NextDisplay]_vars

-----------------------------------------------------------------------------
(* Claims *)

IsPrefix(p, q) == Len(p) <= Len(q) /\ SubSeq(q, 1, Len(p)) = p

IsAttempt(i) == http_log[i].ev = "attempt"
AttemptNo(i) == Attempts(SubSeq(http_log, 1, i))
Is2xx(status) == 200 <= status /\ status <= 299
Last(q) == q[Len(q)]

\* what the fetch claims call a failed attempt
FailedNon2xx(e) == e.ev = "attempt" /\ (e.outcome = "transport" \/ ~Is2xx(e.status))
Failed4xx5xx(e) == e.ev = "attempt" /\ e.outcome \in {"transport", "http_error"}

\* The retry contract for a given notion of failed attempt: at most MaxTries
\* requests; a failed first or second attempt is followed by exactly one delay
\* and then the next attempt; a delay only ever follows an attempt; a decoded
\* response ends the call and is what main maps; a failed third attempt ends
\* the call with the network error in main's handler.
RetryContract(Failed(_)) ==
    /\ Attempts(http_log) <= MaxTries
    /\ \A i \in 1..Len(http_log) :
          /\ (Failed(http_log[i]) /\ AttemptNo(i) < MaxTries) =>
                /\ (i = Len(http_log) => pc = "backoff")
                /\ (i < Len(http_log) => http_log[i + 1].ev = "delay")
                /\ (i + 1 = Len(http_log) => pc = "fetch")
                /\ (i + 1 < Len(http_log) => http_log[i + 2].ev = "attempt")
          /\ (http_log[i].ev = "delay") => (i > 1 /\ http_log[i - 1].ev = "attempt")
          /\ (IsAttempt(i) /\ http_log[i].outcome = "ok") =>
                /\ i = Len(http_log)
                /\ pc \notin {"fetch", "backoff"}
                /\ Delays(http_log) = Attempts(http_log) - 1
          /\ (Failed(http_log[i]) /\ AttemptNo(i) = MaxTries) =>
                /\ i = Len(http_log)
                /\ pc = "done"
                /\ exit_code = <<1>>
                /\ Len(exc) = 1 /\ "RequestException" \in exc[1].bases
                /\ Last(log) = "Network error"
                /\ Delays(http_log) = MaxTries - 1

\* C1 as claimed: fetch_everything makes at most 3 attempts, and an attempt that
\* fails with a transport error or ANY status outside 200-299 is retried after
\* one delay (twice at most), the third failure surfacing the network error.
C1_RetryOnNon2xx == RetryContract(FailedNon2xx)

\* C1 amended: the same contract, where a failed attempt is a transport error
\* or a 4xx/5xx status (what raise_for_status raises for).
C1_RetryOn4xx5xx == RetryContract(Failed4xx5xx)

\* fail, fail, success: the third response is handed to main after two delays
C1_Witness ==
    /\ pc = "map"
    /\ Len(http_log) = 5
    /\ http_log[1].outcome = "transport"
    /\ http_log[3].outcome = "http_error"
    /\ http_log[5].outcome = "ok"
    /\ Delays(http_log) = 2

\* C2: a 2xx response whose body is not valid JSON is not retried: it is the
\* last request of the call, no delay follows it, and main handles it as a
\* parse error (the ValueError handler), not as a network error.
C2_BadJsonNotRetried ==
    \A i \in 1..Len(http_log) :
        (IsAttempt(i) /\ http_log[i].outcome = "bad_json" /\ Is2xx(http_log[i].status)) =>
            /\ i = Len(http_log)
            /\ pc = "done"
            /\ Len(exc) = 1 /\ exc[1].name = "JSONDecodeError"
            /\ Last(log) = "error"

\* C3: with no API key configured (NEWS_API_KEY unset or empty; main passes no
\* constructor argument) the run ends at once with the configuration error:
\* no request, no delay, the ValueError handler and not the network handler.
C3_NoKeyNoRequest ==
    (env_key \in {None, Empty} /\ pc # "start") =>
        /\ pc = "done"
        /\ http_log = << >>
        /\ exc = <<ValueErrorExc>>
        /\ log = <<"error">>
        /\ exit_code = <<1>>

C3_Witness == env_key = Empty /\ pc = "done" /\ exit_code = <<1>>

FileAt(path) == path # << >> /\ path[1] \in DOMAIN fs

\* C4: the stages run in the order load, map, (exporter,) JSON, CSV, display; a
\* failure ends the run; a failed load leaves no directory, file or output; a
\* failed export reaches the top-level handler and display is never entered:
\* display is entered only with both files written (the CSV, when there are
\* articles to write).
C4_StagesInOrder ==
    /\ IsPrefix(stages, <<"load", "map", "exporter", "json", "csv", "display">>)
    /\ exc # << >> => pc = "done"
    /\ (exc # << >> /\ stages = <<"load">>) =>
          (~dir_created /\ fs = << >> /\ console = << >>)
    /\ (exc # << >> /\ Len(stages) >= 3 /\ Last(stages) \in {"exporter", "json", "csv"}) =>
          /\ console = << >>
          /\ exit_code = <<1>>
          /\ Last(log) = "Unexpected error"
    /\ (Len(stages) >= 1 /\ Last(stages) = "display") =>
          /\ dir_created
          /\ FileAt(json_file)
          /\ (articles # << >> => FileAt(csv_file))
    /\ console # << >> => Last(stages) = "display"

\* the CSV export failed after the JSON file was written
C4_Witness ==
    /\ pc = "done"
    /\ exc = <<OSErrorExc>>
    /\ Last(stages) = "csv"
    /\ FileAt(json_file)
    /\ ~args.quiet

Completed ==
    /\ Len(http_log) >= 1 /\ Last(http_log).outcome = "ok"
    /\ FileAt(json_file)
    /\ csv_file # << >>
    /\ (articles # << >> => FileAt(csv_file))
    /\ (args.quiet \/ console # << >>)

\* C5: main has returned exactly when the run is over; it returns 0 exactly
\* when load, both exports and (unless --quiet) display completed without an
\* exception, and 1 for every exception raised in the pipeline, whatever its
\* category.
C5_ExitCodes ==
    /\ (pc = "done") <=> (exit_code # << >>)
    /\ exit_code \in {<< >>, <<0>>, <<1>>}
    /\ exit_code = <<0>> <=> (pc = "done" /\ exc = << >> /\ Completed)
    /\ exit_code = <<1>> <=> exc # << >>
    /\ exc # << >> => Last(log) \in {"error", "Network error", "Unexpected error"}

\* an export error, neither ValueError nor RequestException, ends with code 1
C5_Witness ==
    /\ pc = "done"
    /\ exit_code = <<1>>
    /\ exc = <<OSErrorExc>>
    /\ Last(log) = "Unexpected error"

\* C6: once save_csv has returned, the file it names exists and starts with the
\* nine-column header, also for an empty list, where it holds no data row and
\* a warning was logged.
C6_HeaderAlwaysWritten ==
    csv_file # << >> =>
        /\ FileAt(csv_file)
        /\ fs[csv_file[1]].kind = "csv"
        /\ fs[csv_file[1]].header = Header
        /\ (articles = << >> =>
               (fs[csv_file[1]].rows = << >> /\ "No articles to save" \in {log[i] : i \in 1..Len(log)}))

\* the data rows save_csv wrote
RowsWritten == IF FileAt(csv_file) /\ fs[csv_file[1]].kind = "csv"
               THEN fs[csv_file[1]].rows ELSE << >>

\* the field of an article that belongs under a header column
FieldUnder(a, column) ==
    CASE column = "title"        -> a.title
      [] column = "source"       -> a.source
      [] column = "source_id"    -> a.source_id
      [] column = "author"       -> a.author
      [] column = "description"  -> a.description
      [] column = "url"          -> a.url
      [] column = "url_to_image" -> a.url_to_image
      [] column = "publishedAt"  -> a.published_at
      [] column = "content"      -> a.content

\* C7: once save_csv has returned, it has written one data row per article, in
\* input order, below the header; under every header column stands the
\* article's field of that column, unchanged when it is a string and the empty
\* string, never the text None, when it is absent.
C7_RowPerArticle ==
    csv_file # << >> =>
        /\ Len(RowsWritten) = Len(articles)
        /\ (articles # << >> => (FileAt(csv_file) /\ fs[csv_file[1]].header = Header))
        /\ \A i \in 1..Len(RowsWritten) :
              /\ Len(RowsWritten[i]) = Len(Header)
              /\ \A c \in 1..Len(Header) :
                    LET v == FieldUnder(articles[i], Header[c])
                    IN  /\ v = None => RowsWritten[i][c] = << >>
                        /\ v # None => RowsWritten[i][c] = v.s
                        /\ RowsWritten[i][c] # <<"None">>

\* two rows, the first of an article without author, the second with one
C7_Witness ==
    /\ csv_file # << >>
    /\ Len(RowsWritten) = 2
    /\ articles[1].author = None
    /\ articles[1].content = None
    /\ articles[2].author = Str(<<"A">>)

\* a name has an extension: a last dot with text on both sides
HasExtension(n) ==
    \E k \in 2..(Len(n) - 1) : n[k] = "." /\ \A j \in (k + 1)..Len(n) : n[j] # "."

\* the path an export returns for the file name argument arg
NameOk(arg, ext, path) ==
    IF arg \in {None, Empty}
    THEN path = <<"news_data_">> \o Strftime(timestamp) \o <<".", ext>>
    ELSE IF HasExtension(arg.s) THEN path = arg.s
    ELSE path = arg.s \o <<".", ext>>

\* C8: a supplied name without extension gets .json / .csv appended, a
\* supplied name with an extension is kept as it is, and without a supplied
\* name both exports use news_data_<timestamp> with the exporter's one
\* timestamp, so the default JSON and CSV names differ in the extension only.
C8_Filenames ==
    /\ json_file # << >> => NameOk(args.json, "json", json_file[1])
    /\ csv_file # << >> => NameOk(args.csv, "csv", csv_file[1])
    /\ (json_file # << >> /\ csv_file # << >> /\ args.json = None /\ args.csv = None) =>
          /\ SubSeq(json_file[1], 1, Len(json_file[1]) - 1)
                = SubSeq(csv_file[1], 1, Len(csv_file[1]) - 1)
          /\ Last(json_file[1]) = "json"
          /\ Last(csv_file[1]) = "csv"

\* both default names, the second taken after the clock moved on
C8_Witness ==
    /\ json_file # << >>
    /\ csv_file # << >>
    /\ args.json = None
    /\ args.csv = None
    /\ clock > timestamp

HasMarker(s) == \E k \in 1..(Len(s) - 1) : s[k] = "[" /\ s[k + 1] = "+"

\* t is s up to its first marker, or s when it has none
IsTextBeforeMarker(t, s) ==
    \/ ~HasMarker(s) /\ t = s
    \/ \E k \in 1..(Len(s) - 1) :
          /\ s[k] = "[" /\ s[k + 1] = "+"
          /\ \A j \in 1..(k - 1) : ~(s[j] = "[" /\ s[j + 1] = "+")
          /\ t = SubSeq(s, 1, k - 1)

\* the console lines that show the content of article i
ContentLines(i) ==
    {j \in 1..Len(console) :
        console[j].n = i /\ console[j].label \in {"Content Preview", "Content"}}

Displayed == pc = "done" /\ exc = << >> /\ ~args.quiet

\* C9 as claimed: two exclusive modes.  By default a content with the marker is
\* shown only up to the marker, with a note that the flag gives the full
\* content; with the flag the content is shown verbatim and not truncated.
C9_ExclusiveModes ==
    Displayed =>
        \A i \in 1..Len(articles) :
            LET c == articles[i].content
            IN  (Truthy(c) /\ HasMarker(c.s)) =>
                    IF args.full_content
                    THEN /\ ContentLines(i) # {}
                         /\ \A j \in ContentLines(i) : console[j].text = c.s
                    ELSE /\ ContentLines(i) # {}
                         /\ \A j \in ContentLines(i) : IsTextBeforeMarker(console[j].text, c.s)
                         /\ \E j \in 1..Len(console) : console[j].label = "note"

\* C9 amended: the preview, the content up to its first marker, is shown in
\* both modes and without any note; by default nothing else of the content is
\* shown; with the flag the content is shown verbatim as well, after the
\* preview.
C9_PreviewThenFull ==
    Displayed =>
        /\ \A j \in 1..Len(console) : console[j].label # "note"
        /\ \A i \in 1..Len(articles) :
              LET c == articles[i].content
                  previews == {j \in ContentLines(i) : console[j].label = "Content Preview"}
                  fulls == {j \in ContentLines(i) : console[j].label = "Content"}
              IN  IF Truthy(c)
                  THEN /\ Cardinality(previews) = 1
                       /\ \A j \in previews : IsTextBeforeMarker(console[j].text, c.s)
                       /\ IF args.full_content
                          THEN /\ Cardinality(fulls) = 1
                               /\ \A j \in fulls :
                                     /\ console[j].text = c.s
                                     /\ \A k \in previews : k < j
                          ELSE fulls = {}
                  ELSE ContentLines(i) = {}

\* default mode, a content with text before its marker
C9_Witness ==
    /\ Displayed
    /\ ~args.full_content
    /\ Len(articles) >= 1
    /\ articles[1].content = Str(<<"a", "[", "+">>)
    /\ console # << >>

\* the value of a raw field as the record keeps it: absence is None
PassedThrough(v) == IF v = Missing THEN None ELSE v

\* C10: after the mapping, title and url equal the raw value when the key is
\* there and "" otherwise and are never None; an article without source gets
\* source "" and no source_id, and does not make the mapping raise; author,
\* description, content and urlToImage are passed through, None staying None
\* and "" staying "".
C10_FromDict ==
    /\ (pc = "done" /\ exc = <<AttributeErrorExc>>) =>
          \E i \in 1..Len(raw_data) : raw_data[i].source # NoSource
    /\ (pc # "map" /\ exc = << >>) =>
          /\ Len(articles) = Len(raw_data)
          /\ \A i \in 1..Len(raw_data) :
                LET d == raw_data[i]
                    a == articles[i]
                IN  /\ a.title = (IF d.title = Missing THEN Empty ELSE d.title)
                    /\ a.url = (IF d.url = Missing THEN Empty ELSE d.url)
                    /\ a.title # None
                    /\ a.url # None
                    /\ d.source = NoSource => (a.source = Empty /\ a.source_id = None)
                    /\ a.author = PassedThrough(d.author)
                    /\ a.description = PassedThrough(d.description)
                    /\ a.content = PassedThrough(d.content)
                    /\ a.url_to_image = PassedThrough(d.urlToImage)

====
